---------------------------- MODULE Spec2Model ----------------------------
(***************************************************************************)
(* Model of relutech_scraper.py (and of its reduced variant scraper.py):   *)
(* vendor discovery from the sitemap, the table extraction of fetch_page,  *)
(* the paginated per-vendor scraper,                                       *)
(* the aggregation loop over the vendors, date normalisation and the       *)
(* (vendor, model) dedup/merge of post-processing.                         *)
(*                                                                         *)
(* Strings are TLA+ strings.  Python orders strings by code point; TLC     *)
(* cannot compare strings, so the order of the strings that occur in the   *)
(* model is the table CodepointOrder.  A URL is a sequence of tokens, a    *)
(* token being "/", " " or a maximal run of other characters.              *)
(***************************************************************************)
EXTENDS Integers, Sequences, FiniteSets, TLC

(***************************************************************************)
(* Bounds of the model.                                                    *)
(***************************************************************************)
\* longest sitemap (number of <url> entries) drawn in InitDiscover
MaxLocs == 3
\* largest max_pages argument drawn in Init
MaxPagesArg == 4
\* longest explicit vendor list drawn in Init
MaxExplicit == 2
\* number of fetches in one run that answer something else than an empty page
MaxEvents == 3
\* longest frame handed to post-processing in InitPost
MaxRecords == 3
\* number of pages of the vendor section drawn in InitExtract
MaxSitePages == 2

(***************************************************************************)
(* Python values.                                                          *)
(***************************************************************************)
\* None / NaN in a cell
None == [isnull |-> TRUE, text |-> ""]
Str(s) == [isnull |-> FALSE, text |-> s]
\* the vendors argument of scrape_eol_data: None (the default) or a list
NoVendors == [isnone |-> TRUE, list |-> <<>>]
Vendors(l) == [isnone |-> FALSE, list |-> l]

\* sorted(...) and groupby(sort=True) compare strings by code point
CodepointOrder ==
  << "", "BROCADE", "CISCO", "DELL", "EMC", "EMC-ECOMM", "HPE", "IBM",
     "JUNIPER", "ModelX", "ModelY", "ModelZ", "NETAPP-ECOMM", "NIMBLE",
     "SUN-ORACLE", "brocade", "cisco", "dell", "emc", "emc-ecomm", "hpe",
     "ibm", "juniper", "netapp-ecomm", "nimble", "page2", "sun-oracle" >>

Rank(s) == CHOOSE i \in 1..Len(CodepointOrder) : CodepointOrder[i] = s

StrLess(a, b) == Rank(a) < Rank(b)

\* sorted(children): the strings of the set S in ascending order
RECURSIVE SortedStrs(_)
SortedStrs(S) ==
  IF S = {} THEN <<>>
  ELSE LET m == CHOOSE x \in S : \A y \in S : ~StrLess(y, x)
       IN <<m>> \o SortedStrs(S \ {m})

IsSortedStrs(q) == \A i \in 1..Len(q) - 1 : ~StrLess(q[i + 1], q[i])

RECURSIVE Concat(_)
Concat(ss) == IF ss = <<>> THEN <<>> ELSE Head(ss) \o Concat(Tail(ss))

(***************************************************************************)
(* Vendor discovery: get_unique_eol_vendors.                               *)
(***************************************************************************)
HOST == "https://relutech.com"
BASE_PATH == <<HOST, "/", "eol-eosl", "/">>

fallback_vendors ==
  << "cisco", "dell", "emc", "emc-ecomm", "hpe", "ibm", "juniper",
     "netapp-ecomm", "nimble", "sun-oracle" >>

\* loc_elem is None or not loc_elem.text
NoLoc == <<>>

\* The <loc> texts a sitemap of the model may list.
LocCatalogue ==
  { NoLoc,
    <<HOST, "/", "eol-eosl", "/", "cisco", "/", "page2">>,
    <<HOST, "/", "eol-eosl", "/", "dell", "/">>,
    <<" ", HOST, "/", "eol-eosl", "/", "cisco", " ">>,
    <<HOST, "/", "eol-eosl", "/", "/", "brocade">>,
    <<HOST, "/", "eol-eosl", "/">>,
    <<HOST, "/", "eol-eosl", "/", "/">>,
    <<HOST, "/", "about">>,
    <<HOST, "/", "blog", "/", "eol-eosl", "/", "ibm">> }

\* str.strip(): drop the leading and trailing whitespace tokens
RECURSIVE LStripWs(_)
LStripWs(s) == IF s # <<>> /\ Head(s) = " " THEN LStripWs(Tail(s)) ELSE s

RECURSIVE RStripWs(_)
RStripWs(s) ==
  IF s # <<>> /\ s[Len(s)] = " " THEN RStripWs(SubSeq(s, 1, Len(s) - 1)) ELSE s

StripWs(s) == RStripWs(LStripWs(s))

\* str.startswith(prefix)
StartsWith(s, prefix) ==
  Len(s) >= Len(prefix) /\ SubSeq(s, 1, Len(prefix)) = prefix

\* str.lstrip("/")
RECURSIVE LStripSlash(_)
LStripSlash(s) == IF s # <<>> /\ Head(s) = "/" THEN LStripSlash(Tail(s)) ELSE s

\* tail.split("/", 1)[0]: the text before the first "/" (one token, or "")
SplitFirst(tail) == IF tail = <<>> \/ Head(tail) = "/" THEN "" ELSE Head(tail)

\* The body of the for loop over the <url> entries: the children set after
\* one entry whose <loc> text is loc.
AddChild(chs, loc) ==
  IF loc = NoLoc THEN chs
  ELSE LET l == StripWs(loc) IN
       IF ~StartsWith(l, BASE_PATH) THEN chs
       ELSE LET tail == LStripSlash(SubSeq(l, Len(BASE_PATH) + 1, Len(l))) IN
            IF tail = <<>> THEN chs
            ELSE LET child == SplitFirst(tail) IN
                 IF child # "" THEN chs \cup {child} ELSE chs

\* faulty variant: the sorted children are returned even when there are none
VendorsFromChildrenNoFallback(chs) == SortedStrs(chs)

\* if children: return sorted(children) else: return fallback_vendors
VendorsFromChildren(chs) ==
  IF chs # {} THEN SortedStrs(chs) ELSE fallback_vendors

(***************************************************************************)
(* Date normalisation: parse_date_robust and convert_to_utc_iso.           *)
(***************************************************************************)
\* dateutil is a hard dependency of pandas: the import of lines 9-13 succeeds
HAS_DATEUTIL == TRUE

NaT == [nat |-> TRUE, y |-> 0, mo |-> 0, d |-> 0, h |-> 0, aware |-> FALSE, off |-> 0]
\* a timezone-naive timestamp, at midnight
Naive(y, mo, d) ==
  [nat |-> FALSE, y |-> y, mo |-> mo, d |-> d, h |-> 0, aware |-> FALSE, off |-> 0]
\* a timezone-aware timestamp, off hours east of UTC
Aware(y, mo, d, h, off) ==
  [nat |-> FALSE, y |-> y, mo |-> mo, d |-> d, h |-> h, aware |-> TRUE, off |-> off]

Returns(ts) == [exc |-> "", ts |-> ts]
Raises(e) == [exc |-> e, ts |-> NaT]

\* What the four library calls of parse_date_robust answer for the date texts
\* of the model:
\*   abbrev   pd.to_datetime(s, format="%b %d, %Y", errors="coerce")
\*   full     pd.to_datetime(s, format="%B %d, %Y", errors="coerce")
\*   flexible pd.to_datetime(s, errors="coerce")
\*   dateutil date_parser.parse(s, fuzzy=False)
\* "08335394550" reads as the year 8335394550: pandas coerces its own
\* OutOfBoundsDatetime to NaT, dateutil's parse raises OverflowError from
\* datetime.replace (dateutil documents the OverflowError; pandas' parsing.pyx
\* names this very text).
DateCatalogue ==
  { [text |-> "Aug 1, 2020", abbrev |-> Naive(2020, 8, 1), full |-> NaT,
     flexible |-> Naive(2020, 8, 1), dateutil |-> Returns(Naive(2020, 8, 1))],
    [text |-> "Sep 1, 2021", abbrev |-> Naive(2021, 9, 1), full |-> NaT,
     flexible |-> Naive(2021, 9, 1), dateutil |-> Returns(Naive(2021, 9, 1))],
    [text |-> "Aug 31, 2022", abbrev |-> Naive(2022, 8, 31), full |-> NaT,
     flexible |-> Naive(2022, 8, 31), dateutil |-> Returns(Naive(2022, 8, 31))],
    [text |-> "August 31, 2022", abbrev |-> NaT, full |-> Naive(2022, 8, 31),
     flexible |-> Naive(2022, 8, 31), dateutil |-> Returns(Naive(2022, 8, 31))],
    [text |-> "2022-08-31", abbrev |-> NaT, full |-> NaT,
     flexible |-> Naive(2022, 8, 31), dateutil |-> Returns(Naive(2022, 8, 31))],
    [text |-> "2022-08-31T05:00:00-05:00", abbrev |-> NaT, full |-> NaT,
     flexible |-> Aware(2022, 8, 31, 5, -5),
     dateutil |-> Returns(Aware(2022, 8, 31, 5, -5))],
    [text |-> "N/A", abbrev |-> NaT, full |-> NaT, flexible |-> NaT,
     dateutil |-> Raises("ValueError")],
    [text |-> "08335394550", abbrev |-> NaT, full |-> NaT, flexible |-> NaT,
     dateutil |-> Raises("OverflowError")] }

DateTexts == {e.text : e \in DateCatalogue}
Entry(s) == CHOOSE e \in DateCatalogue : e.text = s

\* str.strip() of a cell text: the texts of the model carry no whitespace
\* but the whitespace-only one
Strip(s) == IF s = "   " THEN "" ELSE s

\* pd.isna(date_str) or not date_str or str(date_str).strip() == ""
IsBlank(v) == v.isnull \/ v.text = "" \/ Strip(v.text) = ""

\* except (ValueError, TypeError, AttributeError): pass
CaughtByParse == {"ValueError", "TypeError", "AttributeError"}

\* parse_date_robust: the strategies in the order of the code, the first
\* success returned; None is NaT once it is stored in the column
parse_date_robust(v) ==
  IF IsBlank(v) THEN Returns(NaT)
  ELSE LET e == Entry(Strip(v.text)) IN
       IF ~e.abbrev.nat THEN Returns(e.abbrev)
       ELSE IF ~e.full.nat THEN Returns(e.full)
       ELSE IF ~e.flexible.nat THEN Returns(e.flexible)
       ELSE IF HAS_DATEUTIL /\ e.dateutil.exc = "" THEN Returns(e.dateutil.ts)
       ELSE IF HAS_DATEUTIL /\ e.dateutil.exc \notin CaughtByParse
            THEN Raises(e.dateutil.exc)
       ELSE Returns(NaT)

\* x.replace(tzinfo=timezone.utc) for a naive x, x.astimezone(timezone.utc)
\* for an aware one (the aware times of the model stay within their day)
ToUtc(x) ==
  IF ~x.aware THEN [x EXCEPT !.aware = TRUE, !.off = 0]
  ELSE [x EXCEPT !.h = x.h - x.off, !.off = 0]

\* Timestamp.isoformat() of the timestamps of the model
IsoFormat(x) ==
  CASE <<x.y, x.mo, x.d, x.h, x.off>> = <<2020, 8, 1, 0, 0>> -> "2020-08-01T00:00:00+00:00"
    [] <<x.y, x.mo, x.d, x.h, x.off>> = <<2021, 9, 1, 0, 0>> -> "2021-09-01T00:00:00+00:00"
    [] <<x.y, x.mo, x.d, x.h, x.off>> = <<2022, 8, 31, 0, 0>> -> "2022-08-31T00:00:00+00:00"
    [] <<x.y, x.mo, x.d, x.h, x.off>> = <<2022, 8, 31, 10, 0>> -> "2022-08-31T10:00:00+00:00"
    [] <<x.y, x.mo, x.d, x.h, x.off>> = <<2022, 8, 31, 5, -5>> -> "2022-08-31T05:00:00-05:00"

\* convert_to_utc_iso
convert_to_utc_iso(x) == IF x.nat THEN None ELSE Str(IsoFormat(ToUtc(x)))

(***************************************************************************)
(* Dedup/merge: remove_duplicates_and_merge.                               *)
(***************************************************************************)
\* str.upper() of the vendor identifiers of the model
Upper(s) ==
  CASE s = "brocade" -> "BROCADE" [] s = "cisco" -> "CISCO"
    [] s = "dell" -> "DELL" [] s = "emc" -> "EMC"
    [] s = "emc-ecomm" -> "EMC-ECOMM" [] s = "hpe" -> "HPE"
    [] s = "ibm" -> "IBM" [] s = "juniper" -> "JUNIPER"
    [] s = "netapp-ecomm" -> "NETAPP-ECOMM" [] s = "nimble" -> "NIMBLE"
    [] s = "sun-oracle" -> "SUN-ORACLE" [] OTHER -> s

\* faulty variant: the first value of the series, null or not
first_value(series) == IF series = <<>> THEN None ELSE Head(series)

\* first_non_null: the first value of the series that is neither null nor blank
RECURSIVE first_non_null(_)
first_non_null(series) ==
  IF series = <<>> THEN None
  ELSE IF ~Head(series).isnull /\ Strip(Head(series).text) # ""
       THEN Head(series)
       ELSE first_non_null(Tail(series))

Key(r) == <<r.vendor, r.model>>

\* groupby sorts the group keys: by vendor, then by model
KeyLess(a, b) == StrLess(a[1], b[1]) \/ (a[1] = b[1] /\ StrLess(a[2], b[2]))

RECURSIVE SortedKeys(_)
SortedKeys(S) ==
  IF S = {} THEN <<>>
  ELSE LET m == CHOOSE x \in S : \A y \in S : ~KeyLess(y, x)
       IN <<m>> \o SortedKeys(S \ {m})

\* the members of one group, in the order of the frame
Group(df, k) == SelectSeq(df, LAMBDA r : Key(r) = k)

Column(rows, col) == [i \in 1..Len(rows) |-> rows[i][col]]

\* faulty variant: the aggregations of the two date columns are exchanged
MergeGroupSwapped(df, k) ==
  [vendor |-> k[1], model |-> k[2],
   eol_date |-> first_non_null(Column(Group(df, k), "eosl_date")),
   eosl_date |-> first_non_null(Column(Group(df, k), "eol_date"))]

\* grouped.agg(agg_dict).reset_index() for one group
MergeGroup(df, k) ==
  [vendor |-> k[1], model |-> k[2],
   eol_date |-> first_non_null(Column(Group(df, k), "eol_date")),
   eosl_date |-> first_non_null(Column(Group(df, k), "eosl_date"))]

remove_duplicates_and_merge(df) ==
  LET keys == SortedKeys({Key(df[i]) : i \in 1..Len(df)})
  IN [j \in 1..Len(keys) |-> MergeGroup(df, keys[j])]

(***************************************************************************)
(* post_process_eol_df.                                                    *)
(***************************************************************************)
\* faulty variant: the vendor column is left as it is
UpperVendorsSkipped(df) == df

\* processed_df["vendor"].str.upper()
UpperVendors(df) == [i \in 1..Len(df) |-> [df[i] EXCEPT !.vendor = Upper(@)]]

\* the exception .apply(parse_date_robust) lets through, "" when there is none
ParseException(df) ==
  LET bad == {e \in {parse_date_robust(df[i][col]).exc :
                       i \in 1..Len(df), col \in {"eol_date", "eosl_date"}} : e # ""}
  IN IF bad = {} THEN "" ELSE CHOOSE e \in bad : TRUE

NormalizeCell(v) == convert_to_utc_iso(parse_date_robust(v).ts)

\* both date columns parsed and rendered
NormalizeDates(df) ==
  [i \in 1..Len(df) |->
     [df[i] EXCEPT !.eol_date = NormalizeCell(@), !.eosl_date = NormalizeCell(@)]]

post_process_eol_df(df) ==
  remove_duplicates_and_merge(NormalizeDates(UpperVendors(df)))

(***************************************************************************)
(* The inputs of a run and the answers of the site.                        *)
(***************************************************************************)
RawRow(m, eol, eosl) == [model |-> m, eol_date |-> Str(eol), eosl_date |-> Str(eosl)]

\* The non-empty pages a vendor section of the model may serve (the rows
\* fetch_page builds, in table order).
PageA == << RawRow("ModelX", "Aug 1, 2020", ""), RawRow("ModelX", "", "Sep 1, 2021") >>
PageB == << RawRow("ModelY", "August 31, 2022", "N/A") >>
PageC == << RawRow("ModelZ", "08335394550", "") >>
PageCatalogue == {PageA, PageB, PageC}
\* the vendor sections of the model that hold rows; any section may answer
\* an empty page or an error
DataVendors == {"cisco", "dell"}

(***************************************************************************)
(* Table extraction: fetch_page after the response has arrived.            *)
(*                                                                         *)
(* A document is the sequence of its <table> elements in document order.   *)
(* A table is its <th> cells, its first <tbody> (present or not, with the  *)
(* <tr> rows inside it) and the <tr> rows it holds outside a <tbody>.  A   *)
(* row is the sequence of its <td> cells and a cell the sequence of its    *)
(* text nodes.  html.parser builds the tree the markup spells out: it adds *)
(* no <tbody> to a table written without one.                              *)
(***************************************************************************)
\* Tag.get_text(strip=True): the text nodes, each stripped, the empty ones
\* dropped, joined
RECURSIVE get_text(_)
get_text(nodes) ==
  IF nodes = <<>> THEN "" ELSE Strip(Head(nodes)) \o get_text(Tail(nodes))

\* a cell holding one text node, and one holding a link between line breaks
Cell(s) == <<s>>
LinkCell(s) == <<"   ", s, "   ">>

\* table.find("tbody") is None, or the rows of the <tbody> it finds
NoTbody == [present |-> FALSE, trs |-> <<>>]
Tbody(trs) == [present |-> TRUE, trs |-> trs]
Table(th, tbody, trs) == [th |-> th, tbody |-> tbody, trs |-> trs]

\* {"Model", "EOL Date", "EOSL Date"}
RequiredHeaders == {"Model", "EOL Date", "EOSL Date"}

ProductHeader == << Cell("Model"), Cell("EOL Date"), Cell("EOSL Date"), Cell("Details") >>
PaddedHeader ==
  << Cell("Details"), LinkCell("EOSL Date"), LinkCell("Model"), LinkCell("EOL Date") >>
HeaderRow == <<>>

\* the <tr> of a product: a linked model, the two dates and further cells
ProductRow(r, more) ==
  << LinkCell(r.model), Cell(r.eol_date.text), Cell(r.eosl_date.text) >> \o more
ShortRow == << Cell("ModelY"), Cell("Aug 31, 2022"), Cell("Sep 1, 2021") >>
Details == << Cell("Details") >>

\* a navigation table: rows of four cells under other headers
NavTable ==
  Table(<< Cell("Vendor"), Cell("Model"), Cell("EOL Date"), Cell("Details") >>,
        Tbody(<< ProductRow(PageB[1], Details) >>), <<>>)
\* the rows of PageA, a row of three cells between them, a header row in
\* the <tbody>
TableA ==
  Table(ProductHeader,
        Tbody(<< HeaderRow, ProductRow(PageA[1], Details), ShortRow,
                 ProductRow(PageA[2], Details) >>), <<>>)
\* the row of PageB with two further cells, under padded headers
TableB ==
  Table(PaddedHeader, Tbody(<< ProductRow(PageB[1], Details \o Details) >>), <<>>)
\* every row has fewer than four cells
ShortTable == Table(ProductHeader, Tbody(<< ShortRow, HeaderRow >>), <<>>)
\* an empty <tbody>
EmptyTable == Table(ProductHeader, Tbody(<<>>), << HeaderRow >>)
\* the rows of PageA written directly under <table>: no <tbody>
BareTable ==
  Table(ProductHeader, NoTbody,
        << HeaderRow, ProductRow(PageA[1], Details), ProductRow(PageA[2], Details) >>)

\* The documents a vendor section of the model may serve.
DocCatalogue ==
  { <<>>, << NavTable >>, << NavTable, TableA >>, << TableA >>,
    << TableB, TableA >>, << ShortTable >>, << EmptyTable >>,
    << BareTable >>, << NavTable, BareTable, TableA >> }

\* header_cells = [th.get_text(strip=True) for th in t.find_all("th")];
\* {"Model", "EOL Date", "EOSL Date"}.issubset(set(header_cells))
HeaderMatches(t) ==
  RequiredHeaders \subseteq {get_text(t.th[i]) : i \in 1..Len(t.th)}

\* the for loop over soup.find_all("table"): the position of the first table
\* whose headers match, 0 when table stays None
FindTable(doc) ==
  IF \E i \in 1..Len(doc) : HeaderMatches(doc[i])
  THEN CHOOSE i \in 1..Len(doc) :
         HeaderMatches(doc[i]) /\ \A j \in 1..(i - 1) : ~HeaderMatches(doc[j])
  ELSE 0

\* the for loop over the <tr> rows: a row of fewer than four <td> is skipped,
\* the others give the texts of their first three cells
RECURSIVE ExtractRows(_)
ExtractRows(trs) ==
  IF trs = <<>> THEN <<>>
  ELSE LET tds == Head(trs) IN
       IF Len(tds) < 4 THEN ExtractRows(Tail(trs))
       ELSE << RawRow(get_text(tds[1]), get_text(tds[2]), get_text(tds[3])) >>
              \o ExtractRows(Tail(trs))

Extracted(rows) == [exc |-> "", rows |-> rows]
ExtractionRaises(e) == [exc |-> e, rows |-> <<>>]

\* fetch_page from BeautifulSoup(resp.text, "html.parser") on: the frame it
\* returns, or the exception that leaves it.  table.find("tbody") is None for
\* a table without <tbody>, and None.find_all raises AttributeError.
fetch_page(doc) ==
  LET k == FindTable(doc) IN
  IF k = 0 THEN Extracted(<<>>)
  ELSE IF ~doc[k].tbody.present THEN ExtractionRaises("AttributeError")
  ELSE Extracted(ExtractRows(doc[k].tbody.trs))

\* the documents of the pages 1..MaxSitePages of a section; <<>> where a
\* specification draws each answer at the fetch
NoSite == <<>>

\* what requests.get(SITEMAP_URL) and ET.fromstring answer
SitemapError == [status |-> "error", urls |-> <<>>]
SitemapMalformed == [status |-> "malformed", urls |-> <<>>]
SitemapOk(urls) == [status |-> "ok", urls |-> urls]

SeqsUpTo(S, n) == UNION {[1..k -> S] : k \in 0..n}

\* the sitemaps of a whole run
PipelineSitemaps ==
  { SitemapError, SitemapMalformed,
    SitemapOk(<< <<HOST, "/", "eol-eosl", "/", "dell", "/">>,
                 <<HOST, "/", "eol-eosl", "/", "cisco", "/", "page2">>,
                 <<HOST, "/", "about">> >>) }

\* the vendor identifiers a caller passes explicitly
ExplicitVendors == {"cisco", "dell"}

\* the frames handed to post-processing on their own
PostVendors == {"cisco", "CISCO", "dell"}
PostModels == {"ModelX", "ModelY"}
DatePairs ==
  { <<Str("Aug 1, 2020"), Str("")>>,
    <<Str(""), Str("Sep 1, 2021")>>,
    <<Str("August 31, 2022"), Str("Aug 31, 2022")>> }
Record(v, m, eol, eosl) ==
  [vendor |-> v, model |-> m, eol_date |-> eol, eosl_date |-> eosl]
RecordCatalogue ==
  { Record(v, m, p[1], p[2]) : v \in PostVendors, m \in PostModels, p \in DatePairs }
    \cup { Record("cisco", "ModelX", Str("2022-08-31T05:00:00-05:00"), Str("2022-08-31")),
            Record("cisco", "ModelX", Str("N/A"), None),
            Record("dell", "ModelY", Str("08335394550"), Str("   ")) }

(***************************************************************************)
(* State.                                                                  *)
(***************************************************************************)
VARIABLES
  pc,             \* where the run is
  vendorsArg,     \* scrape_eol_data's vendors argument
  max_pages,      \* scrape_eol_data's max_pages argument
  sitemap,        \* what the sitemap fetch and parse will answer
  site,           \* the documents a vendor section serves, page by page
  sitemapFetches, \* number of GETs of SITEMAP_URL so far
  urlIdx,         \* get_unique_eol_vendors: position in root.findall("sm:url")
  children,       \* get_unique_eol_vendors: children
  vendors,        \* scrape_eol_data: vendors
  vi,             \* scrape_eol_data: position of the for loop in vendors
  page,           \* scrape_vendor_eol_url: page
  page_dfs,       \* scrape_vendor_eol_url: all_dfs
  all_dfs,        \* scrape_eol_data: all_dfs
  owners,         \* for each frame of all_dfs, the position of its vendor
  fetchLog,       \* every page fetch so far: vendor position, page, answer
  eventsLeft,     \* fetches that may still answer something else than empty
  frame,          \* combined_df, the argument of post-processing
  result,         \* the frame returned
  again           \* remove_duplicates_and_merge applied to result

vars ==
  << pc, vendorsArg, max_pages, sitemap, site, sitemapFetches, urlIdx, children,
     vendors, vi, page, page_dfs, all_dfs, owners, fetchLog, eventsLeft,
     frame, result, again >>

discoveryVars == << sitemapFetches, urlIdx, children >>
scrapeVars == << vi, page, page_dfs, all_dfs, owners, fetchLog, eventsLeft >>
postVars == << frame, result, again >>
inputVars == << vendorsArg, max_pages, sitemap, site >>

Idle ==
  /\ sitemapFetches = 0 /\ urlIdx = 1 /\ children = {}
  /\ vendors = <<>> /\ vi = 1 /\ page = 1 /\ page_dfs = <<>>
  /\ all_dfs = <<>> /\ owners = <<>> /\ fetchLog = <<>>
  /\ eventsLeft = MaxEvents
  /\ frame = <<>> /\ result = <<>> /\ again = <<>>

\* a run of scrape_eol_data(vendors, max_pages)
Init ==
  /\ pc = "start"
  /\ max_pages \in 0..MaxPagesArg
  /\ \/ vendorsArg = NoVendors /\ sitemap \in PipelineSitemaps
     \/ /\ vendorsArg \in {Vendors(l) : l \in SeqsUpTo(ExplicitVendors, MaxExplicit)}
        /\ sitemap = SitemapError
  /\ site = NoSite
  /\ Idle

\* a call of get_unique_eol_vendors()
InitDiscover ==
  /\ pc = "start"
  /\ max_pages = 0
  /\ vendorsArg = NoVendors
  /\ sitemap \in {SitemapError, SitemapMalformed}
                   \cup {SitemapOk(u) : u \in SeqsUpTo(LocCatalogue, MaxLocs)}
  /\ site = NoSite
  /\ Idle

\* a call of post_process_eol_df(frame) ("post") or of
\* remove_duplicates_and_merge(frame) ("dedup")
InitPost ==
  /\ pc \in {"post", "dedup"}
  /\ max_pages = 0
  /\ vendorsArg = NoVendors
  /\ sitemap = SitemapError
  /\ site = NoSite
  /\ sitemapFetches = 0 /\ urlIdx = 1 /\ children = {}
  /\ vendors = <<>> /\ vi = 1 /\ page = 1 /\ page_dfs = <<>>
  /\ all_dfs = <<>> /\ owners = <<>> /\ fetchLog = <<>>
  /\ eventsLeft = MaxEvents
  /\ frame \in SeqsUpTo(RecordCatalogue, MaxRecords)
  /\ result = <<>> /\ again = <<>>

\* a run of scrape_eol_data([vendor], max_pages) on a section whose every
\* fetch arrives: page p answers the document site[p]
InitExtract ==
  /\ pc = "start"
  /\ max_pages \in 0..MaxSitePages
  /\ vendorsArg \in {Vendors(<<v>>) : v \in ExplicitVendors}
  /\ sitemap = SitemapError
  /\ site \in [1..MaxSitePages -> DocCatalogue]
  /\ Idle

(***************************************************************************)
(* get_unique_eol_vendors, called when vendors is None.                    *)
(***************************************************************************)
\* requests.get / raise_for_status raises: except Exception -> fallback
FetchSitemapFails ==
  /\ pc = "start" /\ vendorsArg.isnone /\ sitemap.status = "error"
  /\ sitemapFetches' = sitemapFetches + 1
  /\ vendors' = fallback_vendors
  /\ pc' = "vendors"
  /\ UNCHANGED << urlIdx, children, scrapeVars, postVars, inputVars >>

\* ET.fromstring raises: except Exception -> fallback
ParseSitemapFails ==
  /\ pc = "start" /\ vendorsArg.isnone /\ sitemap.status = "malformed"
  /\ sitemapFetches' = sitemapFetches + 1
  /\ vendors' = fallback_vendors
  /\ pc' = "vendors"
  /\ UNCHANGED << urlIdx, children, scrapeVars, postVars, inputVars >>

\* the document is fetched and parsed; children = set()
ParseSitemap ==
  /\ pc = "start" /\ vendorsArg.isnone /\ sitemap.status = "ok"
  /\ sitemapFetches' = sitemapFetches + 1
  /\ urlIdx' = 1 /\ children' = {}
  /\ pc' = "urls"
  /\ UNCHANGED << vendors, scrapeVars, postVars, inputVars >>

\* one iteration of: for url_elem in root.findall("sm:url", ns)
NextUrl ==
  /\ pc = "urls" /\ urlIdx <= Len(sitemap.urls)
  /\ children' = AddChild(children, sitemap.urls[urlIdx])
  /\ urlIdx' = urlIdx + 1
  /\ UNCHANGED << pc, sitemapFetches, vendors, scrapeVars, postVars, inputVars >>

\* the loop is over: sorted(children), or the fallback when there are none
ReturnVendors ==
  /\ pc = "urls" /\ urlIdx > Len(sitemap.urls)
  /\ vendors' = VendorsFromChildren(children)
  /\ pc' = "vendors"
  /\ UNCHANGED << discoveryVars, scrapeVars, postVars, inputVars >>

NextDiscover ==
  \/ FetchSitemapFails
  \/ ParseSitemapFails
  \/ ParseSitemap
  \/ NextUrl
  \/ ReturnVendors

(***************************************************************************)
(* scrape_eol_data and scrape_vendor_eol_url.                              *)
(***************************************************************************)
\* vendors is not None: the list is used as given
UseGivenVendors ==
  /\ pc = "start" /\ ~vendorsArg.isnone
  /\ vendors' = vendorsArg.list
  /\ pc' = "vendors"
  /\ UNCHANGED << discoveryVars, scrapeVars, postVars, inputVars >>

\* for vendor in vendors: scrape_vendor_eol_url is entered (all_dfs = [], page = 1)
StartVendor ==
  /\ pc = "vendors" /\ vi <= Len(vendors)
  /\ page' = 1 /\ page_dfs' = <<>>
  /\ pc' = "paging"
  /\ UNCHANGED << vendors, vi, all_dfs, owners, fetchLog, eventsLeft,
                  discoveryVars, postVars, inputVars >>

\* faulty variant: the loop runs one page too far
MorePagesOffByOne == page <= max_pages + 1

\* while page <= max_pages
MorePages == page <= max_pages

\* the log with one more fetch: of page `page` of the vendor at vi, answered
\* by an exception ("raise"), an empty frame ("empty") or rows ("rows")
Fetched(kind, rows) ==
  Append(fetchLog, [vi |-> vi, page |-> page, kind |-> kind, rows |-> rows])

\* df["vendor"] = vendor
Tag(rows, v) ==
  [i \in 1..Len(rows) |->
     [vendor |-> v, model |-> rows[i].model,
      eol_date |-> rows[i].eol_date, eosl_date |-> rows[i].eosl_date]]

\* faulty variant: the frame of a vendor is put in front of the earlier ones
CollectedInFront(dfs, rows, v) ==
  IF rows # <<>> THEN <<Tag(rows, v)>> \o dfs ELSE dfs

\* scrape_vendor_eol_url returns the pages it holds; scrape_eol_data appends
\* them, tagged, unless there is none
Collected(dfs, rows, v) == IF rows # <<>> THEN Append(dfs, Tag(rows, v)) ELSE dfs

\* faulty variant: the pages fetched before the exception are kept
FetchRaisesKeepsPages ==
  /\ pc = "paging" /\ MorePages /\ eventsLeft > 0
  /\ fetchLog' = Fetched("raise", <<>>)
  /\ eventsLeft' = eventsLeft - 1
  /\ all_dfs' = Collected(all_dfs, Concat(page_dfs), vendors[vi])
  /\ owners' = IF page_dfs # <<>> THEN Append(owners, vi) ELSE owners
  /\ vi' = vi + 1
  /\ pc' = "vendors"
  /\ UNCHANGED << vendors, page, page_dfs, discoveryVars, postVars, inputVars >>

\* fetch_page raises (requests.get, raise_for_status): the exception leaves
\* scrape_vendor_eol_url and is caught by the except of the vendor loop
FetchRaises ==
  /\ pc = "paging" /\ MorePages /\ eventsLeft > 0
  /\ fetchLog' = Fetched("raise", <<>>)
  /\ eventsLeft' = eventsLeft - 1
  /\ vi' = vi + 1
  /\ pc' = "vendors"
  /\ UNCHANGED << vendors, page, page_dfs, all_dfs, owners,
                  discoveryVars, postVars, inputVars >>

\* fetch_page returns rows: all_dfs.append(df); page += 1
FetchData ==
  /\ pc = "paging" /\ MorePages /\ eventsLeft > 0
  /\ vendors[vi] \in DataVendors
  /\ \E p \in PageCatalogue :
       /\ fetchLog' = Fetched("rows", p)
       /\ page_dfs' = Append(page_dfs, p)
  /\ eventsLeft' = eventsLeft - 1
  /\ page' = page + 1
  /\ UNCHANGED << pc, vendors, vi, all_dfs, owners,
                  discoveryVars, postVars, inputVars >>

\* faulty variant: an empty page does not end the loop
FetchEmptyGoesOn ==
  /\ pc = "paging" /\ MorePages
  /\ fetchLog' = Fetched("empty", <<>>)
  /\ page' = page + 1
  /\ UNCHANGED << pc, vendors, vi, page_dfs, all_dfs, owners, eventsLeft,
                  discoveryVars, postVars, inputVars >>

\* fetch_page returns an empty frame: break, return what was collected
FetchEmpty ==
  /\ pc = "paging" /\ MorePages
  /\ fetchLog' = Fetched("empty", <<>>)
  /\ all_dfs' = Collected(all_dfs, Concat(page_dfs), vendors[vi])
  /\ owners' = IF page_dfs # <<>> THEN Append(owners, vi) ELSE owners
  /\ vi' = vi + 1
  /\ pc' = "vendors"
  /\ UNCHANGED << vendors, page, page_dfs, eventsLeft,
                  discoveryVars, postVars, inputVars >>

\* the response arrives and fetch_page raises on its document: the exception
\* leaves scrape_vendor_eol_url and is caught by the except of the vendor loop
FetchPageRaises ==
  /\ pc = "paging" /\ MorePages /\ page \in DOMAIN site
  /\ fetch_page(site[page]).exc # ""
  /\ fetchLog' = Fetched("raise", <<>>)
  /\ vi' = vi + 1
  /\ pc' = "vendors"
  /\ UNCHANGED << vendors, page, page_dfs, all_dfs, owners, eventsLeft,
                  discoveryVars, postVars, inputVars >>

\* fetch_page returns the rows of the document: all_dfs.append(df); page += 1
FetchPageRows ==
  /\ pc = "paging" /\ MorePages /\ page \in DOMAIN site
  /\ LET df == fetch_page(site[page]) IN
       /\ df.exc = "" /\ df.rows # <<>>
       /\ fetchLog' = Fetched("rows", df.rows)
       /\ page_dfs' = Append(page_dfs, df.rows)
  /\ page' = page + 1
  /\ UNCHANGED << pc, vendors, vi, all_dfs, owners, eventsLeft,
                  discoveryVars, postVars, inputVars >>

\* fetch_page returns an empty frame for the document: break, return what
\* was collected
FetchPageEmpty ==
  /\ pc = "paging" /\ MorePages /\ page \in DOMAIN site
  /\ LET df == fetch_page(site[page]) IN df.exc = "" /\ df.rows = <<>>
  /\ fetchLog' = Fetched("empty", <<>>)
  /\ all_dfs' = Collected(all_dfs, Concat(page_dfs), vendors[vi])
  /\ owners' = IF page_dfs # <<>> THEN Append(owners, vi) ELSE owners
  /\ vi' = vi + 1
  /\ pc' = "vendors"
  /\ UNCHANGED << vendors, page, page_dfs, eventsLeft,
                  discoveryVars, postVars, inputVars >>

\* while page <= max_pages is false: return what was collected
PagesExhausted ==
  /\ pc = "paging" /\ ~MorePages
  /\ all_dfs' = Collected(all_dfs, Concat(page_dfs), vendors[vi])
  /\ owners' = IF page_dfs # <<>> THEN Append(owners, vi) ELSE owners
  /\ vi' = vi + 1
  /\ pc' = "vendors"
  /\ UNCHANGED << vendors, page, page_dfs, fetchLog, eventsLeft,
                  discoveryVars, postVars, inputVars >>

\* the vendor loop is over and nothing was collected: an empty frame
ReturnEmpty ==
  /\ pc = "vendors" /\ vi > Len(vendors) /\ all_dfs = <<>>
  /\ result' = <<>>
  /\ pc' = "done"
  /\ UNCHANGED << vendors, frame, again, discoveryVars, scrapeVars, inputVars >>

\* combined_df = pd.concat(all_dfs, ignore_index=True)
Combine ==
  /\ pc = "vendors" /\ vi > Len(vendors) /\ all_dfs # <<>>
  /\ frame' = Concat(all_dfs)
  /\ pc' = "post"
  /\ UNCHANGED << vendors, result, again, discoveryVars, scrapeVars, inputVars >>

(***************************************************************************)
(* post_process_eol_df and remove_duplicates_and_merge as steps.           *)
(***************************************************************************)
PostProcessReturns ==
  /\ pc = "post" /\ ParseException(frame) = ""
  /\ result' = post_process_eol_df(frame)
  /\ pc' = "done"
  /\ UNCHANGED << vendors, frame, again, discoveryVars, scrapeVars, inputVars >>

\* an exception of parse_date_robust leaves post_process_eol_df and, in a
\* run, scrape_eol_data: nothing catches it
PostProcessRaises ==
  /\ pc = "post" /\ ParseException(frame) # ""
  /\ pc' = "raised"
  /\ UNCHANGED << vendors, postVars, discoveryVars, scrapeVars, inputVars >>

\* remove_duplicates_and_merge called on a frame
Dedup ==
  /\ pc = "dedup"
  /\ result' = remove_duplicates_and_merge(frame)
  /\ pc' = "deduped"
  /\ UNCHANGED << vendors, frame, again, discoveryVars, scrapeVars, inputVars >>

\* remove_duplicates_and_merge called on its own output
DedupAgain ==
  /\ pc \in {"done", "deduped"}
  /\ again' = remove_duplicates_and_merge(result)
  /\ pc' = "redone"
  /\ UNCHANGED << vendors, frame, result, discoveryVars, scrapeVars, inputVars >>

NextScrape ==
  \/ UseGivenVendors
  \/ StartVendor
  \/ FetchRaises
  \/ FetchData
  \/ FetchEmpty
  \/ PagesExhausted
  \/ ReturnEmpty
  \/ Combine

NextExtract ==
  \/ UseGivenVendors
  \/ StartVendor
  \/ FetchPageRaises
  \/ FetchPageRows
  \/ FetchPageEmpty
  \/ PagesExhausted
  \/ ReturnEmpty
  \/ Combine

NextPost ==
  \/ PostProcessReturns
  \/ PostProcessRaises
  \/ Dedup
  \/ DedupAgain

Next ==
  \/ NextDiscover
  \/ NextScrape
  \/ PostProcessReturns
  \/ PostProcessRaises

\* a whole run: python relutech_scraper.py, or scrape_eol_data(vendors, max_pages)
Spec == Init /\ [][Next]_vars

\* get_unique_eol_vendors on every sitemap of the bounds
DiscoverSpec == InitDiscover /\ [][NextDiscover]_vars

\* post_process_eol_df / remove_duplicates_and_merge on every frame of the bounds
PostSpec == InitPost /\ [][NextPost]_vars

\* scrape_vendor_eol_url on every section of the bounds, each of its pages
\* answered by a document
ExtractSpec == InitExtract /\ [][NextExtract]_vars

(***************************************************************************)
(* What the fetch log says about each vendor position.                     *)
(***************************************************************************)
FetchesOf(i) == SelectSeq(fetchLog, LAMBDA e : e.vi = i)
RowsOf(log) == Concat([j \in 1..Len(log) |-> log[j].rows])
HasRaise(i) == \E j \in 1..Len(fetchLog) : fetchLog[j].vi = i /\ fetchLog[j].kind = "raise"
AllRows(log) == \A j \in 1..Len(log) : log[j].kind = "rows"
\* the for loop is past position i
Finished(i) == i < vi
\* the frame position i added to all_dfs, <<>> when it added none
ContributionOf(i) ==
  IF \E k \in 1..Len(owners) : owners[k] = i
  THEN all_dfs[CHOOSE k \in 1..Len(owners) : owners[k] = i]
  ELSE <<>>
\* the rows position i fetched, tagged with its vendor
TaggedFetch(i) == Tag(RowsOf(FetchesOf(i)), vendors[i])
RunOver == pc \in {"post", "done", "raised"}
Min(S) == CHOOSE x \in S : \A y \in S : x <= y

(***************************************************************************)
(* C1: a section whose pages 1..k-1 hold rows and whose page k is empty,   *)
(* k <= max_pages, is fetched exactly k times, pages 1, 2, ..., k in that  *)
(* order, and contributes exactly the rows of pages 1..k-1 in page order,  *)
(* then row order; the scraper stops short of max_pages fetches only at    *)
(* an empty page (or at an exception).                                     *)
(***************************************************************************)
C1_FirstEmptyPageStops ==
  \A i \in 1..Len(vendors) :
    LET log == FetchesOf(i) IN
    /\ \A j \in 1..Len(log) : log[j].page = j
    /\ \A k \in 1..Len(log) :
         (log[k].kind = "empty" /\ AllRows(SubSeq(log, 1, k - 1))) =>
           /\ k <= max_pages
           /\ Len(log) = k
           /\ Finished(i)
           /\ ContributionOf(i) = Tag(RowsOf(SubSeq(log, 1, k - 1)), vendors[i])
    /\ (Finished(i) /\ Len(log) < max_pages) =>
         (log # <<>> /\ log[Len(log)].kind \in {"empty", "raise"})

\* three pages of rows, then the empty page 4: four fetches, the rows of 1..3
C1_Witness ==
  \E i \in 1..Len(vendors) :
    /\ Finished(i)
    /\ Len(FetchesOf(i)) = 4
    /\ FetchesOf(i)[4].kind = "empty"
    /\ AllRows(SubSeq(FetchesOf(i), 1, 3))
    /\ FetchesOf(i)[1].rows # FetchesOf(i)[2].rows
    /\ ContributionOf(i) # <<>>

(***************************************************************************)
(* C2: a vendor section is never fetched more than max_pages times and     *)
(* never at a page beyond max_pages; when every page 1..max_pages holds    *)
(* rows it is fetched exactly max_pages times and contributes exactly the  *)
(* rows of pages 1..max_pages.                                             *)
(***************************************************************************)
C2_AtMostMaxPages ==
  \A i \in 1..Len(vendors) :
    LET log == FetchesOf(i) IN
    /\ Len(log) <= max_pages
    /\ \A j \in 1..Len(log) : log[j].page <= max_pages
    /\ (Finished(i) /\ AllRows(log)) =>
         /\ Len(log) = max_pages
         /\ ContributionOf(i) = Tag(RowsOf(log), vendors[i])

\* max_pages = 2, two pages of rows: two fetches, both pages returned
C2_Witness ==
  /\ max_pages = 2
  /\ \E i \in 1..Len(vendors) :
       /\ Finished(i)
       /\ Len(FetchesOf(i)) = 2
       /\ AllRows(FetchesOf(i))
       /\ Len(ContributionOf(i)) >= 2

(***************************************************************************)
(* C3: when the fetch of a page k of the vendor at position i raises, no   *)
(* further page of that vendor is fetched, the vendor contributes no rows  *)
(* (those of its pages 1..k-1 included), the frames of the earlier vendors *)
(* are what they fetched, and every later vendor is still scraped.         *)
(***************************************************************************)
C3_FailedVendorIsolated ==
  \A i \in 1..Len(vendors) :
    HasRaise(i) =>
      /\ LET log == FetchesOf(i) IN log[Len(log)].kind = "raise"
      /\ Finished(i)
      /\ ContributionOf(i) = <<>>
      /\ \A k \in 1..Len(all_dfs) :
           owners[k] < i => all_dfs[k] = TaggedFetch(owners[k])
      /\ RunOver => \A j \in (i + 1)..Len(vendors) : FetchesOf(j) # <<>>

\* page 2 of a vendor raised after its page 1 held rows; an earlier vendor
\* contributed, a later one was scraped, the run went on to its end
C3_Witness ==
  /\ RunOver
  /\ \E i \in 1..Len(vendors) :
       /\ HasRaise(i)
       /\ Len(FetchesOf(i)) = 2
       /\ \E k \in 1..Len(owners) : owners[k] < i
       /\ i < Len(vendors)

(***************************************************************************)
(* C4: whatever the sitemap fetch and the page fetches answer, the run     *)
(* goes on until scrape_eol_data returns a combined result: it never stops *)
(* anywhere else.                                                          *)
(***************************************************************************)
C4_RunCompletes == pc = "done" \/ ENABLED Next

(***************************************************************************)
(* C5: get_unique_eol_vendors fetches the sitemap once and returns a       *)
(* non-empty sorted list: the fallback list when the fetch or the parse    *)
(* raises or no location under the base path yields a vendor, otherwise    *)
(* the distinct first path segments below the base path, sorted.           *)
(***************************************************************************)
\* a location without its surrounding whitespace
Trimmed(loc) == SelectSeq(loc, LAMBDA t : t # " ")
UnderBase(loc) ==
  LET t == Trimmed(loc) IN
  Len(t) >= 4 /\ t[1] = HOST /\ t[2] = "/" /\ t[3] = "eol-eosl" /\ t[4] = "/"
\* the first path segment below the base path, "" when there is none
SegmentOf(loc) ==
  LET t == Trimmed(loc)
      at == {j \in 5..Len(t) : t[j] # "/"}
  IN IF at = {} THEN "" ELSE t[Min(at)]
Listed ==
  {SegmentOf(sitemap.urls[j]) :
     j \in {n \in 1..Len(sitemap.urls) : UnderBase(sitemap.urls[n])}} \ {""}

C5_Discovery ==
  /\ sitemapFetches <= 1
  /\ pc = "vendors" =>
       /\ sitemapFetches = 1
       /\ vendors # <<>>
       /\ \A i \in 1..Len(vendors) - 1 : StrLess(vendors[i], vendors[i + 1])
       /\ IF sitemap.status # "ok" \/ Listed = {}
          THEN vendors = fallback_vendors
          ELSE {vendors[i] : i \in 1..Len(vendors)} = Listed

\* .../eol-eosl/cisco/page2, .../eol-eosl/dell/ and a URL outside the base path
C5_Witness ==
  /\ pc = "vendors"
  /\ sitemap = SitemapOk(<< <<HOST, "/", "eol-eosl", "/", "cisco", "/", "page2">>,
                            <<HOST, "/", "eol-eosl", "/", "dell", "/">>,
                            <<HOST, "/", "about">> >>)
  /\ vendors = <<"cisco", "dell">>

(***************************************************************************)
(* C6: in the output of post_process_eol_df every (uppercased vendor,      *)
(* model) pair of the input occurs in exactly one record, whatever the     *)
(* vendor of the other records with that model, and no other pair occurs.  *)
(***************************************************************************)
C6_OneRecordPerPair ==
  pc = "done" =>
    /\ \A i \in 1..Len(frame) :
         Cardinality({j \in 1..Len(result) :
                        /\ result[j].vendor = Upper(frame[i].vendor)
                        /\ result[j].model = frame[i].model}) = 1
    /\ \A j \in 1..Len(result) :
         \E i \in 1..Len(frame) :
           /\ result[j].vendor = Upper(frame[i].vendor)
           /\ result[j].model = frame[i].model

\* cisco and CISCO share one record of ModelX, dell keeps its own
C6_Witness ==
  /\ pc = "done"
  /\ Len(frame) = 3
  /\ {frame[i].vendor : i \in 1..3} = {"cisco", "CISCO", "dell"}
  /\ \A i \in 1..3 : frame[i].model = "ModelX"
  /\ Len(result) = 2

(***************************************************************************)
(* C7: each date field of a merged record is the first value of that field *)
(* that is neither null nor blank among the members of its group, in the   *)
(* order of the input frame, and null exactly when there is none; the two  *)
(* fields are chosen independently.                                        *)
(***************************************************************************)
\* the frame remove_duplicates_and_merge was given
DedupInput == IF pc = "done" THEN NormalizeDates(UpperVendors(frame)) ELSE frame
HasValue(v) == ~v.isnull /\ v.text \notin {"", "   "}

C7_FirstNonNull ==
  pc \in {"done", "deduped"} =>
    LET given == DedupInput IN
    \A j \in 1..Len(result) : \A f \in {"eol_date", "eosl_date"} :
      LET members == {i \in 1..Len(given) :
                        /\ given[i].vendor = result[j].vendor
                        /\ given[i].model = result[j].model}
          valued == {i \in members : HasValue(given[i][f])}
      IN /\ members # {}
         /\ IF valued = {} THEN result[j][f] = None
            ELSE result[j][f] = given[Min(valued)][f]

\* {CISCO, ModelX, "Aug 1, 2020", ""} and {CISCO, ModelX, "", "Sep 1, 2021"}
C7_Witness ==
  /\ pc = "done"
  /\ frame = << Record("cisco", "ModelX", Str("Aug 1, 2020"), Str("")),
                Record("cisco", "ModelX", Str(""), Str("Sep 1, 2021")) >>
  /\ result = << Record("CISCO", "ModelX", Str("2020-08-01T00:00:00+00:00"),
                        Str("2021-09-01T00:00:00+00:00")) >>

(***************************************************************************)
(* C8: remove_duplicates_and_merge applied to its own output returns it    *)
(* unchanged: the same records, fields and order.                          *)
(***************************************************************************)
C8_DedupIdempotent == pc = "redone" => again = result

\* three records, two of one group, in an order the output does not keep
C8_Witness ==
  /\ pc = "redone"
  /\ Len(frame) = 3
  /\ Len(result) = 2
  /\ result[1].vendor # frame[1].vendor
  /\ \E j \in 1..2 : result[j].eol_date # None /\ result[j].eosl_date # None

(***************************************************************************)
(* C9: date normalisation never raises: a text that is missing, blank or   *)
(* fails every strategy becomes null, and every date field of the output   *)
(* is null or a UTC ISO-8601 string.                                       *)
(***************************************************************************)
IsoUtcTexts ==
  { "2020-08-01T00:00:00+00:00", "2021-09-01T00:00:00+00:00",
    "2022-08-31T00:00:00+00:00", "2022-08-31T10:00:00+00:00" }

C9_NormalizeNeverRaises ==
  /\ pc # "raised"
  /\ pc = "done" =>
       \A j \in 1..Len(result) : \A f \in {"eol_date", "eosl_date"} :
         result[j][f] = None \/ (~result[j][f].isnull /\ result[j][f].text \in IsoUtcTexts)

(***************************************************************************)
(* C10 as claimed: the vendors of every list are scraped in the sorted     *)
(* order of their identifiers.                                             *)
(***************************************************************************)
C10_ScrapedInSortedOrder ==
  \A j \in 1..Len(fetchLog) - 1 :
    ~StrLess(vendors[fetchLog[j + 1].vi], vendors[fetchLog[j].vi])

(***************************************************************************)
(* C10 amended: the vendors are scraped one at a time in the order of the  *)
(* list in use, which is the caller's list as given or else the sorted     *)
(* discovered or fallback list; the accumulated records are vendor-major   *)
(* in that list order, then by page, then by row.                          *)
(***************************************************************************)
\* what the positions 1..n contribute, in list order
RECURSIVE AccumulatedUpTo(_)
AccumulatedUpTo(n) ==
  IF n = 0 THEN <<>>
  ELSE AccumulatedUpTo(n - 1) \o (IF HasRaise(n) THEN <<>> ELSE TaggedFetch(n))

C10_ScrapedInListOrder ==
  /\ (pc # "start" /\ ~vendorsArg.isnone) => vendors = vendorsArg.list
  /\ vendorsArg.isnone => IsSortedStrs(vendors)
  /\ \A j \in 1..Len(fetchLog) - 1 : fetchLog[j].vi <= fetchLog[j + 1].vi
  /\ \A j \in 1..Len(fetchLog) : fetchLog[j].vi <= vi
  /\ pc # "paging" => Concat(all_dfs) = AccumulatedUpTo(vi - 1)
  /\ pc \in {"post", "done", "raised"} => frame = Concat(all_dfs)

\* the caller's list ["dell", "cisco"]: dell's rows come first
C10_Witness ==
  /\ pc = "post"
  /\ vendorsArg = Vendors(<<"dell", "cisco">>)
  /\ Len(all_dfs) = 2
  /\ frame[1].vendor = "dell"
  /\ frame[Len(frame)].vendor = "cisco"

(***************************************************************************)
(* C11: for every page document that was fetched, whatever its structure,  *)
(* table extraction returns a (possibly empty) sequence of records and     *)
(* never raises; a document with a structural mismatch (no table with the  *)
(* three required header labels, a matching table without a body section,  *)
(* a matching table whose rows all have fewer than four cells) is answered *)
(* by an empty result, at which the paginated scraper ends the pages of    *)
(* the vendor and returns the rows of the earlier pages: the vendor has    *)
(* not failed.                                                             *)
(***************************************************************************)
\* no table of the document carries the three labels
NoMatchingTable(doc) == \A i \in 1..Len(doc) : ~HeaderMatches(doc[i])
\* the first table that carries them
MatchingTable(doc) == doc[Min({i \in 1..Len(doc) : HeaderMatches(doc[i])})]
StructuralMismatch(doc) ==
  \/ NoMatchingTable(doc)
  \/ ~MatchingTable(doc).tbody.present
  \/ \A r \in 1..Len(MatchingTable(doc).tbody.trs) :
       Len(MatchingTable(doc).tbody.trs[r]) < 4

C11_ExtractionNeverRaises ==
  \A j \in 1..Len(fetchLog) :
    LET e == fetchLog[j]
        doc == site[e.page]
    IN /\ e.kind # "raise"
       /\ StructuralMismatch(doc) =>
            /\ e.kind = "empty"
            /\ Finished(e.vi)
            /\ ContributionOf(e.vi) =
                 Tag(RowsOf(SubSeq(FetchesOf(e.vi), 1, e.page - 1)), vendors[e.vi])

=============================================================================
